---- MODULE Spec2Model ----
(***************************************************************************)
(* easy JSON viewer (src/json.js): the chunked, timer-driven rendering of  *)
(* a JSON value into a DOM subtree and the collapse/expand handlers; at    *)
(* the end, the earlier synchronous variant of src/unnamed/part_000.       *)
(*                                                                         *)
(* Strings are sequences of one-character strings, so that escaping and    *)
(* quoting are computed character by character.  The DOM is a heap of      *)
(* nodes (dom[i], i the node's identity) with parent and child links.      *)
(***************************************************************************)
EXTENDS Integers, Sequences, FiniteSets, TLC

VARIABLES
    dom,      \* the heap of DOM nodes; node 1 is the host container element
    timers,   \* pending setTimeout callbacks
    now,      \* the event loop's clock (the due time of the last timer run)
    seq,      \* number of setTimeout calls made so far (scheduling order)
    pc,       \* "idle" before byJSONviewer, "returned" after, "again" after a second call on the
              \* same container, "hung" inside a loop that never ends
    call,     \* the last byJSONviewer call: its arguments json and options, and the heap size
              \* (base) and the number of setTimeout calls (seq0) when it was made
    thrown,   \* uncaught exceptions raised by callbacks so far (capped)
    logged,   \* console.log diagnostics so far (capped)
    hist,     \* the last event, with the heap before it (and before the one before it)
    listeners \* number of click listeners registered on the host container itself

vars == <<dom, timers, now, seq, pc, call, thrown, logged, hist, listeners>>

----------------------------------------------------------------------------
(* Bounds of the model *)

\* largest chunkSize a caller supplies (0 and -1 are supplied as well)
MaxChunkSize == 3
\* largest chunkLatency a caller supplies
MaxLatency == 1
\* iterations of chunkArr's loop that are followed before it is declared endless
MaxFuel == 6
\* cap of the thrown and logged counters
MaxCount == 2

(* Program constants *)
DefaultChunkSize == 999
DefaultChunkLatency == 33

----------------------------------------------------------------------------
(* Values: what a caller can hand to byJSONviewer.                          *)
(*   k     "null" | "number" | "boolean" | "string" | "array" | "object"    *)
(*         | "undefined" | "function"  (the last two: unsupported kinds)    *)
(*   s     the characters of a string; String(v) of a number or boolean;    *)
(*         toString() of an object                                          *)
(*   items the elements of an array, the values of an object's entries      *)
(*   keys  Object.keys(v): the own enumerable keys, in iteration order      *)
(*   big   the object has toExponential or isLosslessNumber                 *)

Val(k, s, items, keys, big) == [k |-> k, s |-> s, items |-> items, keys |-> keys, big |-> big]

VNull == Val("null", <<"n","u","l","l">>, <<>>, <<>>, FALSE)
VNum(digits) == Val("number", digits, <<>>, <<>>, FALSE)
VTrue == Val("boolean", <<"t","r","u","e">>, <<>>, <<>>, FALSE)
VStr(chars) == Val("string", chars, <<>>, <<>>, FALSE)
VArr(items) == Val("array", <<>>, items, [i \in 1..Len(items) |-> <<>>], FALSE)
VObj(keys, items) == Val("object", <<>>, items, keys, FALSE)
VUndef == Val("undefined", <<>>, <<>>, <<>>, FALSE)
\* a function with own enumerable properties
VFun(keys, items) == Val("function", <<>>, items, keys, FALSE)
\* a LosslessNumber-like object: own keys value and isLosslessNumber, toString() gives the digits
VBig(digits) == Val("object", digits, <<VStr(digits), VTrue>>, << <<"v">>, <<"i">> >>, TRUE)

\* Object.keys(arg).length
NumKeys(arg) == Len(arg.items)

\* arg instanceof Object
InstanceOfObject(arg) == arg.k \in {"array", "object", "function"}

\* a test that forgets the number of keys
isCollapsibleAnyObject(arg) == InstanceOfObject(arg)

isCollapsible(arg) == InstanceOfObject(arg) /\ NumKeys(arg) > 0

----------------------------------------------------------------------------
(* Strings *)

RECURSIVE Flatten(_)
Flatten(ss) == IF ss = <<>> THEN <<>> ELSE Head(ss) \o Flatten(Tail(ss))

\* s.replace(/c/g, rep) for a one-character pattern c
ReplaceAll(s, c, rep) == Flatten([i \in 1..Len(s) |-> IF s[i] = c THEN rep ELSE <<s[i]>>])

\* an escape that replaces the ampersand last, after the entities of the others were written
htmlEscapeAmpersandLast(s) ==
    ReplaceAll(ReplaceAll(ReplaceAll(ReplaceAll(ReplaceAll(s,
        "<", <<"&","l","t",";">>), ">", <<"&","g","t",";">>), "'", <<"&","a","p","o","s",";">>),
        "\"", <<"&","q","u","o","t",";">>), "&", <<"&","a","m","p",";">>)

htmlEscape(s) ==
    LET s1 == ReplaceAll(s, "&", <<"&","a","m","p",";">>)
        s2 == ReplaceAll(s1, "<", <<"&","l","t",";">>)
        s3 == ReplaceAll(s2, ">", <<"&","g","t",";">>)
        s4 == ReplaceAll(s3, "'", <<"&","a","p","o","s",";">>)
    IN  ReplaceAll(s4, "\"", <<"&","q","u","o","t",";">>)

startsWith(s, p) == Len(s) >= Len(p) /\ SubSeq(s, 1, Len(p)) = p

Protocols == { <<"h","t","t","p">>, <<"h","t","t","p","s">>, <<"f","t","p">>, <<"f","t","p","s">> }

isUrl(s) == \E protocol \in Protocols : startsWith(s, protocol \o <<":","/","/">>)

Quoted(s) == <<"\"">> \o s \o <<"\"">>

----------------------------------------------------------------------------
(* chunkArr: for (let i = 0; i < arr.length; i += size) chunks.push(arr.slice(i, i + size)) *)

Min(a, b) == IF a < b THEN a ELSE b
Max(a, b) == IF a > b THEN a ELSE b

\* arr.slice(from, to) with JavaScript's treatment of negative and too large indices (0-based)
Slice(arr, from, to) ==
    LET n == Len(arr)
        f == IF from < 0 THEN Max(n + from, 0) ELSE Min(from, n)
        t == IF to < 0 THEN Max(n + to, 0) ELSE Min(to, n)
    IN  IF f >= t THEN <<>> ELSE SubSeq(arr, f + 1, t)

\* the loop, followed for at most fuel iterations; ended = FALSE when it is still running then
RECURSIVE chunkLoop(_, _, _, _, _)
chunkLoop(arr, size, i, chunks, fuel) ==
    IF ~(i < Len(arr)) THEN [ended |-> TRUE, chunks |-> chunks]
    ELSE IF fuel = 0 THEN [ended |-> FALSE, chunks |-> chunks]
    ELSE chunkLoop(arr, size, i + size, Append(chunks, Slice(arr, i, i + size)), fuel - 1)

\* a loop that stops before a chunk that is not full (i + size <= arr.length)
chunkArrFullOnly(arr, size) ==
    [chunkLoop(arr, size, 0, <<>>, MaxFuel) EXCEPT !.chunks = SelectSeq(@, LAMBDA chunk : Len(chunk) = size)]

chunkArr(arr, size) == chunkLoop(arr, size, 0, <<>>, MaxFuel)

----------------------------------------------------------------------------
(* The DOM.  A node: tag ("#text" for a text node), its id, its role class,  *)
(* whether its classList holds "collapsed", its style.display, its own      *)
(* text, href, children,                                                    *)
(* parent (0: detached) and pos, kept for the statements about order only:  *)
(* for a list item the position its entry has in the source container, for  *)
(* a nested list the number of entries of the source container.             *)

Root == 1

Node(tag, cls, text, href) ==
    [tag |-> tag, id |-> "", cls |-> cls, collapsed |-> FALSE, display |-> "", text |-> text,
     href |-> href, kids |-> <<>>, parent |-> 0, pos |-> 0]

Remove(s, x) == SelectSeq(s, LAMBDA y : y # x)

\* parent.appendChild(child): a child that sits elsewhere is moved
appendChild(d, parent, child) ==
    LET old == d[child].parent
        d1 == IF old = 0 THEN d ELSE [d EXCEPT ![old].kids = Remove(@, child)]
    IN  [d1 EXCEPT ![parent].kids = Append(@, child), ![child].parent = parent]

\* document.createElement / createTextNode followed by parent.appendChild
appendNew(d, parent, node) == appendChild(Append(d, node), parent, Len(d) + 1)

\* element.textContent = "": every child is detached
clearChildren(d, element) ==
    [i \in 1..Len(d) |->
        IF i = element THEN [d[i] EXCEPT !.kids = <<>>]
        ELSE IF d[i].parent = element THEN [d[i] EXCEPT !.parent = 0]
        ELSE d[i]]

IndexOf(s, x) == CHOOSE i \in 1..Len(s) : s[i] = x

SetMax(S) == CHOOSE x \in S : \A y \in S : y <= x
SetMin(S) == CHOOSE x \in S : \A y \in S : x <= y

IsElement(d, n) == d[n].tag # "#text"

\* node.previousElementSibling: the nearest preceding sibling that is an element, 0 (null) if none
previousElementSibling(d, n) ==
    LET parent == d[n].parent IN
    IF parent = 0 THEN 0
    ELSE LET before == {i \in 1..(IndexOf(d[parent].kids, n) - 1) : IsElement(d, d[parent].kids[i])}
         IN  IF before = {} THEN 0 ELSE d[parent].kids[SetMax(before)]

\* node.nextElementSibling
nextElementSibling(d, n) ==
    LET parent == d[n].parent IN
    IF parent = 0 THEN 0
    ELSE LET after == {i \in (IndexOf(d[parent].kids, n) + 1)..Len(d[parent].kids) :
                          IsElement(d, d[parent].kids[i])}
         IN  IF after = {} THEN 0 ELSE d[parent].kids[SetMin(after)]

\* sibling.id === match || sibling.classList.contains(match)
matches(d, sibling, match) == d[sibling].id = match \/ d[sibling].cls = match

\* the first loop: while (sibling) { if (...) { found = sibling; break; } sibling = previous }
RECURSIVE scanPrevious(_, _, _)
scanPrevious(d, sibling, match) ==
    IF sibling = 0 THEN 0
    ELSE IF matches(d, sibling, match) THEN sibling
    ELSE scanPrevious(d, previousElementSibling(d, sibling), match)

\* the second loop
RECURSIVE scanNext(_, _, _)
scanNext(d, sibling, match) ==
    IF sibling = 0 THEN 0
    ELSE IF matches(d, sibling, match) THEN sibling
    ELSE scanNext(d, nextElementSibling(d, sibling), match)

\* if (found) return found; otherwise the result of the second loop
foundOrNext(d, element, match, found) ==
    IF found # 0 THEN found ELSE scanNext(d, nextElementSibling(d, element), match)

\* a lookup that scans the following siblings only
getSiblingForwardOnly(d, element, match) == scanNext(d, nextElementSibling(d, element), match)

\* a lookup that scans the following siblings first
getSiblingForwardFirst(d, element, match) ==
    IF scanNext(d, nextElementSibling(d, element), match) # 0
    THEN scanNext(d, nextElementSibling(d, element), match)
    ELSE scanPrevious(d, previousElementSibling(d, element), match)

\* the nearest preceding element sibling that matches, else the nearest following one, else 0 (null)
getSiblingByIdOrClass(d, element, match) ==
    foundOrNext(d, element, match, scanPrevious(d, previousElementSibling(d, element), match))

----------------------------------------------------------------------------
(* The machine a handler runs on: the heap, the timer queue, and counters *)

Bump(n) == IF n < MaxCount THEN n + 1 ELSE n

\* classList.add in place of classList.toggle
classAdd(d, n) == [d EXCEPT ![n].collapsed = TRUE]

classToggle(d, n) == [d EXCEPT ![n].collapsed = ~@]

\* a handler that leaves the placeholder alone
togglePlaceholderNever(d, placeholder) == d

\* placeholder.classList.toggle(`collapsed`) when a placeholder sibling is found
togglePlaceholder(d, placeholder) == IF placeholder # 0 THEN classToggle(d, placeholder) ELSE d

\* the handler from the lookup of the nested list on; d is the heap after the toggle of the target
toggleNest(m, d, target, nest) ==
    IF nest = 0 THEN [m EXCEPT !.dom = d, !.logged = Bump(@)]
    ELSE [m EXCEPT !.dom = togglePlaceholder(classToggle(d, nest),
                                             getSiblingByIdOrClass(d, target, "byJSONplaceholder"))]

\* a lookup of the nested list in the whole document: the first element of class byJSONnest
findNestInDocument(m, d, target) ==
    toggleNest(m, d, target,
               IF \E n \in 1..Len(d) : d[n].cls = "byJSONnest"
               THEN SetMin({n \in 1..Len(d) : d[n].cls = "byJSONnest"}) ELSE 0)

\* the lookup of the nested list, in the heap d after the toggle of the target
findNest(m, d, target) == toggleNest(m, d, target, getSiblingByIdOrClass(d, target, "byJSONnest"))

\* the click listener addToggleListener registers on a toggle control
toggleHandler(m, target) == findNest(m, classToggle(m.dom, target), target)

\* the click listener addPlaceholderListener registers on a placeholder
placeholderHandler(m, target) ==
    LET toggle == getSiblingByIdOrClass(m.dom, target, "byJSONtoggle")
    IN  IF toggle # 0 THEN toggleHandler(m, toggle) ELSE m

\* a callback handed to setTimeout: kind "click" (element.click()) or "li" (appendLI(...))
Callback(kind, target, item, options, isLast, isObj, key, pos) ==
    [kind |-> kind, target |-> target, item |-> item, options |-> options,
     isLast |-> isLast, isObj |-> isObj, key |-> key, pos |-> pos]

setTimeout(m, t, cb, delay) ==
    [m EXCEPT !.timers = @ \cup {[due |-> t + Max(delay, 0), seq |-> m.seq + 1, cb |-> cb]},
              !.seq = @ + 1]

\* an initial collapse that reaches the toggle controls of the container only, as a collapse
\* of the toggles present when byJSONviewer returns does
addToggleListenerRootOnly(m, t, element, options) ==
    IF options.collapsed /\ m.dom[element].parent = Root
    THEN setTimeout(m, t, Callback("click", element, VNull, options, FALSE, FALSE, <<>>, 0), 0)
    ELSE m

\* an initial collapse that clicks at once, without setTimeout
addToggleListenerAtOnce(m, t, element, options) ==
    IF options.collapsed THEN toggleHandler(m, element) ELSE m

\* registers the listener (every toggle control has it) and, when collapsed, defers one click
addToggleListener(m, t, element, options) ==
    IF options.collapsed
    THEN setTimeout(m, t, Callback("click", element, VNull, options, FALSE, FALSE, <<>>, 0), 0)
    ELSE m

\* appendA(parent, classname, text, href): the element is appended to parent; its id is Len(m.dom) + 1
appendA(m, parent, classname, text, href) ==
    [m EXCEPT !.dom = appendNew(@, parent, Node("a", classname, text, href))]

appendSPAN(m, parent, text, classname) ==
    [m EXCEPT !.dom = appendNew(@, parent, Node("span", classname, text, <<>>))]

appendText(m, parent, text) ==
    [m EXCEPT !.dom = appendNew(@, parent, Node("#text", "", text, <<>>))]

Last(m) == Len(m.dom)

----------------------------------------------------------------------------
(* Rendering *)

Digit(n) == <<"0","1","2","3","4","5","6","7","8","9">>[n + 1]

\* String(n) of a count
RECURSIVE DecChars(_)
DecChars(n) == IF n < 10 THEN <<Digit(n)>> ELSE DecChars(n \div 10) \o <<Digit(n % 10)>>

\* `${count} item${count > 1 ? "s" : ""}`
CountText(count) == DecChars(count) \o <<" ","i","t","e","m">> \o (IF count > 1 THEN <<"s">> ELSE <<>>)

\* Object.entries(json)
Entries(json) == [i \in 1..Len(json.keys) |-> <<json.keys[i], json.items[i]>>]

\* loops that leave after the first chunk
JobsOfFirstChunk(chunks) ==
    [j \in 1..Len(chunks[1]) |-> [i |-> 0, j |-> j - 1, entry |-> chunks[1][j], len |-> Len(chunks[1])]]

\* the (chunk index, index in chunk) pairs of the nested forEach loops, in the order they run (0-based)
Jobs(chunks) ==
    Flatten([i \in 1..Len(chunks) |->
                [j \in 1..Len(chunks[i]) |->
                    [i |-> i - 1, j |-> j - 1, entry |-> chunks[i][j], len |-> Len(chunks[i])]]])

\* the delay of the insertion of item j of chunk i of an array: options.chunkLatency * (i + j)
arrayDelay(options, i, j) == options.chunkLatency * (i + j)

\* the delay of the insertion of entry j of a chunk of an object: options.chunkLatency * i,
\* where i is the index inside the chunk
objectDelay(options, i, j) == options.chunkLatency * j

\* the isLast argument of the appendLI call for item j of a chunk of length len: j >= chunk.length
isLastArg(j, len) == j >= len

\* `"${htmlEscape(key)}"` or htmlEscape(key)
keyText(options, key) == IF options.withQuotes THEN Quoted(htmlEscape(key)) ELSE htmlEscape(key)

\* the setTimeout calls of chunks.forEach(...) of the array branch, job after job;
\* count is the number of jobs scheduled before, and count + 1 the job's pos
RECURSIVE scheduleArray(_, _, _, _, _, _)
scheduleArray(m, t, ol, options, jobs, count) ==
    IF jobs = <<>> THEN m
    ELSE scheduleArray(
            setTimeout(m, t,
                Callback("li", ol, Head(jobs).entry, options,
                         isLastArg(Head(jobs).j, Head(jobs).len), FALSE, <<>>, count + 1),
                arrayDelay(options, Head(jobs).i, Head(jobs).j)),
            t, ol, options, Tail(jobs), count + 1)

RECURSIVE scheduleObject(_, _, _, _, _, _)
scheduleObject(m, t, ul, options, jobs, count) ==
    IF jobs = <<>> THEN m
    ELSE scheduleObject(
            setTimeout(m, t,
                Callback("li", ul, Head(jobs).entry[2], options,
                         isLastArg(Head(jobs).j, Head(jobs).len), TRUE,
                         keyText(options, Head(jobs).entry[1]), count + 1),
                objectDelay(options, Head(jobs).i, Head(jobs).j)),
            t, ul, options, Tail(jobs), count + 1)

\* chunks.forEach(...): the insertions go to the nested list, the node created last
schedule(m, t, options, jobs, isObj) ==
    IF isObj THEN scheduleObject(m, t, Last(m), options, jobs, 0)
    ELSE scheduleArray(m, t, Last(m), options, jobs, 0)

\* a summary that counts the chunks in place of the items
appendPlaceholderChunkCount(m, element, chunks, count) ==
    IF Len(chunks) > 0 THEN appendA(m, element, "byJSONplaceholder", CountText(Len(chunks)), <<>>) ELSE m

\* a placeholder appended for each chunk
RECURSIVE appendPlaceholderPerChunk(_, _, _, _)
appendPlaceholderPerChunk(m, element, chunks, count) ==
    IF Len(chunks) = 0 THEN m
    ELSE appendPlaceholderPerChunk(appendA(m, element, "byJSONplaceholder", CountText(count), <<>>),
                                   element, Tail(chunks), count)

\* if (isCollapsible(chunks)) addPlaceholderListener(appendA(element, `byJSONplaceholder`, ...)):
\* chunks is a non-empty array here
appendPlaceholder(m, element, chunks, count) ==
    IF Len(chunks) > 0 THEN appendA(m, element, "byJSONplaceholder", CountText(count), <<>>) ELSE m

appendNest(m, element, isObj, n) ==
    [m EXCEPT !.dom = appendNew(@, element,
        [Node(IF isObj THEN "ul" ELSE "ol", "byJSONnest", <<>>, <<>>) EXCEPT !.pos = n])]

\* the shell of a non-empty container, statement after statement: the open bracket, the nested
\* list, the scheduled insertions, the placeholder, the close bracket
renderShell(m, t, element, options, chunks, isObj, n) ==
    appendText(
        appendPlaceholder(
            schedule(
                appendNest(
                    appendText(m, element, IF isObj THEN <<"{">> ELSE <<"[">>),
                    element, isObj, n),
                t, options, Jobs(chunks), isObj),
            element, chunks, Len(Jobs(chunks))),
        element, IF isObj THEN <<"}">> ELSE <<"]">>)

\* return of the node appended last
Returned(m) == [m |-> m, ret |-> Last(m), hung |-> FALSE]

\* return undefined
ReturnedNothing(m) == [m |-> m, ret |-> 0, hung |-> FALSE]

\* chunkArr's loop never ends
Hung(m) == [m |-> m, ret |-> 0, hung |-> TRUE]

\* a container from its chunks on
renderChunks(m, t, element, options, c, isObj, n) ==
    IF ~c.ended THEN Hung(m)
    ELSE IF Len(c.chunks) = 0
    THEN Returned(appendText(m, element, IF isObj THEN <<"{","}">> ELSE <<"[","]">>))
    ELSE Returned(renderShell(m, t, element, options, c.chunks, isObj, n))

\* the string branch, from the escaped string on
renderString(m, element, options, escapedJSON) ==
    IF options.withLinks /\ isUrl(escapedJSON)
    THEN Returned(appendA(m, element, "byJSONstring", Quoted(escapedJSON), escapedJSON))
    ELSE Returned(appendSPAN(m, element, Quoted(escapedJSON), "byJSONstring"))

\* json2html(element, json, options) run at time t: the machine after it, the node it returns
\* (0: undefined), and hung = TRUE when chunkArr's loop never ends
json2html(m, t, element, json, options) ==
    IF json.k = "null" THEN Returned(appendSPAN(m, element, <<"n","u","l","l">>, "byJSONliteral"))
    ELSE IF json.k \in {"number", "boolean"} THEN Returned(appendSPAN(m, element, json.s, "byJSONliteral"))
    ELSE IF json.k = "string" THEN renderString(m, element, options, htmlEscape(json.s))
    ELSE IF json.k = "array"
    THEN renderChunks(m, t, element, options, chunkArr(json.items, options.chunkSize), FALSE,
                      Len(json.items))
    ELSE IF json.k = "object"
    THEN IF options.bigNumbers /\ json.big
         THEN Returned(appendSPAN(m, element, json.s, "byJSONliteral"))
         ELSE renderChunks(m, t, element, options, chunkArr(Entries(json), options.chunkSize), TRUE,
                           Len(json.keys))
    ELSE ReturnedNothing(m)

\* if (isCollapsible(item)) addToggleListener(appendA(parent, `byJSONtoggle`), options.collapsed)
withToggle(m, t, parent, item, options) ==
    IF isCollapsible(item)
    THEN addToggleListener(appendA(m, parent, "byJSONtoggle", <<>>, <<>>), t, Len(m.dom) + 1, options)
    ELSE m

\* if (isObj) li.appendChild(document.createTextNode(`${key}: `))
withKey(m, li, isObj, key) == IF isObj THEN appendText(m, li, key \o <<":"," ">>) ELSE m

\* if (!isLast) li.appendChild(document.createTextNode(","))
withSeparator(m, li, isLast) == IF ~isLast THEN appendText(m, li, <<",">>) ELSE m

\* appendLI from the return of json2html on.  li.appendChild(undefined) throws a TypeError,
\* which ends the callback: the list item is never attached.
finishLI(r, li, parent, isLast) ==
    IF r.hung THEN [m |-> r.m, hung |-> TRUE]
    ELSE IF r.ret = 0 THEN [m |-> [r.m EXCEPT !.thrown = Bump(@)], hung |-> FALSE]
    ELSE [m |-> [withSeparator([r.m EXCEPT !.dom = appendChild(@, li, r.ret)], li, isLast)
                    EXCEPT !.dom = appendChild(@, parent, li)],
          hung |-> FALSE]

\* appendLI once the list item li is created
fillLI(m, t, li, parent, item, options, isLast, isObj, key) ==
    finishLI(json2html(withKey(withToggle(m, t, li, item, options), li, isObj, key),
                       t, li, item, options),
             li, parent, isLast)

\* an insertion that leaves a collapsed list alone
appendLISkipsCollapsed(m, t, parent, item, options, isLast, isObj, key, pos) ==
    IF m.dom[parent].collapsed THEN [m |-> m, hung |-> FALSE]
    ELSE fillLI([m EXCEPT !.dom = Append(@, [Node("li", "", <<>>, <<>>) EXCEPT !.pos = pos])],
                t, Len(m.dom) + 1, parent, item, options, isLast, isObj, key)

\* appendLI(parent, item, options, isLast, isObj, key) run at time t
appendLI(m, t, parent, item, options, isLast, isObj, key, pos) ==
    fillLI([m EXCEPT !.dom = Append(@, [Node("li", "", <<>>, <<>>) EXCEPT !.pos = pos])],
           t, Len(m.dom) + 1, parent, item, options, isLast, isObj, key)

Fields == {"collapsed", "rootCollapsable", "withQuotes", "withLinks", "bigNumbers", "chunkSize", "chunkLatency"}

Defaults ==
    [collapsed |-> FALSE, rootCollapsable |-> TRUE, withQuotes |-> TRUE, withLinks |-> TRUE,
     bigNumbers |-> FALSE, chunkSize |-> DefaultChunkSize, chunkLatency |-> DefaultChunkLatency]

\* { ...options, ...defaults }: the defaults win
mergeDefaultsLast(options) == [f \in Fields |-> Defaults[f]]

\* { ...defaults, ...options }
mergeOptions(options) ==
    [f \in Fields |-> IF f \in DOMAIN options THEN options[f] ELSE Defaults[f]]

\* an entry point that leaves the earlier content in place
prepareKeepsContent(m, element) == [m EXCEPT !.dom[element].cls = "byJSONdocument"]

\* element.textContent = ""; element.classList.add(`byJSONdocument`)
prepare(m, element) ==
    [m EXCEPT !.dom = [clearChildren(@, element) EXCEPT ![element].cls = "byJSONdocument"]]

\* the root toggle control, when the option asks for one
withRootToggle(m, t, element, json, options) ==
    IF options.rootCollapsable THEN withToggle(m, t, element, json, options) ELSE m

render(m, t, element, json, options) ==
    json2html(withRootToggle(prepare(m, element), t, element, json, options), t, element, json, options)

\* byJSONviewer(element, json, options) run at time t
byJSONviewer(m, t, element, json, userOptions) == render(m, t, element, json, mergeOptions(userOptions))

----------------------------------------------------------------------------
(* What callers supply *)

c1 == <<"1">>
c2 == <<"2">>
c3 == <<"3">>
c4 == <<"4">>
ka == <<"a">>
kb == <<"b">>
kc == <<"c">>

\* the characters of scheme :// rest
Url(scheme, rest) == scheme \o <<":","/","/">> \o rest

Inputs ==
    { VNull, VNum(c1), VStr(ka), VStr(<<"<","\"">>), VStr(<<"f","t","p",":","/","/","x">>),
      VStr(Url(<<"h","t","t","p">>, <<"a","&","b">>)),
      VStr(Url(<<"h","t","t","p","s">>, <<"x">>)),
      VStr(Url(<<"f","t","p","s">>, <<"x">>)),
      VStr(<<"j","a","v","a","s","c","r","i","p","t",":","x">>),
      VArr(<<>>), VObj(<<>>, <<>>),
      VArr(<<VArr(<<>>), VObj(<<>>, <<>>), VObj(<<ka>>, <<VStr(Url(<<"h","t","t","p">>, <<"x">>))>>)>>),
      VArr(<<VNum(c1)>>),
      VArr(<<VNum(c1), VNum(c2), VNum(c3), VNum(c4)>>),
      VObj(<<ka, kb, kc>>, <<VNum(c1), VNum(c2), VNum(c3)>>),
      VObj(<<ka, kb>>, <<VNum(c1), VArr(<<VNum(c1), VNum(c2)>>)>>),
      VArr(<<VArr(<<VNum(c1)>>), VObj(<<ka>>, <<VNull>>)>>),
      VArr(<<VUndef, VNum(c1)>>),
      VArr(<<VFun(<<ka>>, <<VNum(c1)>>)>>),
      VArr(<<VBig(c1), VNum(c2)>>),
      VBig(c1), VUndef }

\* a field the caller leaves out is <<>>, one it supplies is <<value>>
Supplied ==
    [collapsed : {<<>>, <<TRUE>>}, rootCollapsable : {<<>>, <<FALSE>>},
     withQuotes : {<<>>, <<FALSE>>}, withLinks : {<<>>, <<FALSE>>}, bigNumbers : {<<>>, <<TRUE>>},
     chunkSize : {<<>>} \cup {<<n>> : n \in -1..MaxChunkSize},
     chunkLatency : {<<>>} \cup {<<n>> : n \in 0..MaxLatency}]

\* a caller sets how the tree is built and collapsed, or how it is shown
SuppliedChoices ==
    {c \in Supplied : (c.withQuotes = <<>> /\ c.withLinks = <<>>)
                      \/ (c.collapsed = <<>> /\ c.rootCollapsable = <<>> /\ c.chunkSize = <<>>
                          /\ c.chunkLatency = <<>>)}

\* the options object of the call
OptionsObject(c) == [f \in {g \in Fields : c[g] # <<>>} |-> c[f][1]]

----------------------------------------------------------------------------
(* The state machine *)

Machine == [dom |-> dom, timers |-> timers, seq |-> seq, thrown |-> thrown, logged |-> logged]

Event(type, el, k, twice, pre, pre2) ==
    [type |-> type, el |-> el, k |-> k, twice |-> twice, pre |-> pre, pre2 |-> pre2]

\* the host container holds earlier content
Init ==
    /\ dom = << [Node("pre", "", <<>>, <<>>) EXCEPT !.kids = <<2>>],
                [Node("#text", "", <<"o","l","d">>, <<>>) EXCEPT !.parent = Root] >>
    /\ timers = {}
    /\ now = 0
    /\ seq = 0
    /\ pc = "idle"
    /\ call = [json |-> VNull, options |-> OptionsObject([f \in Fields |-> <<>>]), base |-> 0, seq0 |-> 0]
    /\ thrown = 0
    /\ logged = 0
    /\ hist = Event("none", 0, "", FALSE, <<>>, <<>>)
    /\ listeners = 0

Install(m) ==
    /\ dom' = m.dom
    /\ timers' = m.timers
    /\ seq' = m.seq
    /\ thrown' = m.thrown
    /\ logged' = m.logged

\* the page calls byJSONviewer(container, json, options)
Render ==
    /\ pc = "idle"
    /\ \E json \in Inputs, c \in SuppliedChoices :
          LET r == byJSONviewer(Machine, now, Root, json, OptionsObject(c)) IN
          /\ Install(r.m)
          /\ pc' = IF r.hung THEN "hung" ELSE "returned"
          /\ call' = [json |-> json, options |-> OptionsObject(c), base |-> Len(dom), seq0 |-> seq]
    /\ hist' = Event("render", Root, "", FALSE, dom, <<>>)
    /\ UNCHANGED <<now, listeners>>

\* what the page hands to a second call on the same container
AgainInputs == { VNum(c2), VObj(<<ka>>, <<VArr(<<VNum(c1), VNum(c2)>>)>>) }

AgainChoices == {c \in Supplied : \A f \in Fields \ {"collapsed"} : c[f] = <<>>}

\* the page calls byJSONviewer on the container once more, callbacks of the first call pending or not
ReRender ==
    /\ pc = "returned"
    /\ \E json \in AgainInputs, c \in AgainChoices :
          LET r == byJSONviewer(Machine, now, Root, json, OptionsObject(c)) IN
          /\ Install(r.m)
          /\ pc' = IF r.hung THEN "hung" ELSE "again"
          /\ call' = [json |-> json, options |-> OptionsObject(c), base |-> Len(dom), seq0 |-> seq]
    /\ hist' = Event("render", Root, "", FALSE, dom, <<>>)
    /\ UNCHANGED <<now, listeners>>

\* byJSONviewer has returned: the event loop runs
Running == pc \in {"returned", "again"}

\* the timer that fires next: the least due time, the earliest scheduled among those
NextTimer ==
    CHOOSE x \in timers : \A y \in timers : x.due < y.due \/ (x.due = y.due /\ x.seq <= y.seq)

\* a click on toggle control el, by the user or by element.click()
ToggleEvent(el) ==
    Event("toggle", el, "", hist.type = "toggle" /\ hist.el = el, dom,
          IF hist.type = "toggle" /\ hist.el = el THEN hist.pre ELSE <<>>)

\* the event loop runs the deferred element.click() of addToggleListener
RunClick ==
    /\ Running
    /\ timers # {}
    /\ NextTimer.cb.kind = "click"
    /\ LET tm == NextTimer IN
          /\ Install(toggleHandler([Machine EXCEPT !.timers = @ \ {tm}], tm.cb.target))
          /\ now' = tm.due
          /\ hist' = ToggleEvent(tm.cb.target)
    /\ UNCHANGED <<pc, call, listeners>>

\* the event loop runs a deferred appendLI(...)
RunInsert ==
    /\ Running
    /\ timers # {}
    /\ NextTimer.cb.kind = "li"
    /\ LET tm == NextTimer
           cb == tm.cb
           r == appendLI([Machine EXCEPT !.timers = @ \ {tm}], tm.due, cb.target, cb.item,
                         cb.options, cb.isLast, cb.isObj, cb.key, cb.pos)
       IN /\ Install(r.m)
          /\ pc' = IF r.hung THEN "hung" ELSE pc
          /\ now' = tm.due
          /\ hist' = Event("li", cb.target, cb.item.k, FALSE, dom, <<>>)
    /\ UNCHANGED <<call, listeners>>

RECURSIVE InDocument(_, _)
InDocument(d, n) == n = Root \/ (d[n].parent # 0 /\ InDocument(d, d[n].parent))

WithClass(d, cls) == {n \in 1..Len(d) : d[n].cls = cls /\ InDocument(d, n)}

\* the user clicks a toggle control of the page
UserToggle ==
    /\ pc = "returned"
    /\ \E el \in WithClass(dom, "byJSONtoggle") :
          /\ Install(toggleHandler(Machine, el))
          /\ hist' = ToggleEvent(el)
    /\ UNCHANGED <<now, pc, call, listeners>>

\* the user clicks a placeholder of the page
UserPlaceholder ==
    /\ pc = "returned"
    /\ \E el \in WithClass(dom, "byJSONplaceholder") :
          /\ Install(placeholderHandler(Machine, el))
          /\ hist' = Event("placeholder", el, "", FALSE, dom, <<>>)
    /\ UNCHANGED <<now, pc, call, listeners>>

Next == Render \/ RunClick \/ RunInsert \/ UserToggle \/ UserPlaceholder

Spec == Init /\ [][Next]_vars

\* the same program when the user activates nothing
NextAuto == Render \/ RunClick \/ RunInsert

SpecAuto == Init /\ [][NextAuto]_vars

\* the same program when the page renders into the container twice
NextAgain == Render \/ ReRender \/ RunClick \/ RunInsert

SpecAgain == Init /\ [][NextAgain]_vars

----------------------------------------------------------------------------
(* Vocabulary of the statements *)

\* the effective options of the call
Opts == mergeOptions(call.options)

\* byJSONviewer has returned and every scheduled callback has run
Quiescent == pc = "returned" /\ timers = {}

Nodes == 1..Len(dom)

\* every nested list that sits in some element
Nests == {n \in Nodes : dom[n].cls = "byJSONnest" /\ dom[n].parent # 0}

\* the children of element e, in heap d, that carry class cls
KidsWithClass(d, e, cls) == {k \in 1..Len(d) : d[k].parent = e /\ d[k].cls = cls}

\* the siblings of node n, in heap d, that carry class cls
SiblingsWithClass(d, n, cls) ==
    IF d[n].parent = 0 THEN {} ELSE KidsWithClass(d, d[n].parent, cls) \ {n}

\* the source positions of the list items of nested list n, in document order
PosSeq(n) == [i \in 1..Len(dom[n].kids) |-> dom[dom[n].kids[i]].pos]

\* list item li ends with the separator
HasSeparator(li) ==
    /\ dom[li].kids # <<>>
    /\ LET last == dom[li].kids[Len(dom[li].kids)]
       IN  dom[last].tag = "#text" /\ dom[last].text = <<",">>

\* heap d with the collapsed indicator of the nodes of S set to b
WithIndicator(d, S, b) == [i \in 1..Len(d) |-> IF i \in S THEN [d[i] EXCEPT !.collapsed = b] ELSE d[i]]

----------------------------------------------------------------------------
(* C1: for every list or mapping with n entries, every chunkSize >= 1 and   *)
(* every chunkLatency >= 0, the children of its nested list are at every    *)
(* moment a prefix of the entries in source order, and all n entries once   *)
(* every scheduled insertion has run (no insertion having thrown).          *)
C1_InsertedInSourceOrder ==
    (pc = "returned" /\ Opts.chunkSize >= 1 /\ Opts.chunkLatency >= 0 /\ thrown = 0) =>
        \A n \in Nests :
            /\ PosSeq(n) = [i \in 1..Len(dom[n].kids) |-> i]
            /\ Quiescent => Len(dom[n].kids) = dom[n].pos

----------------------------------------------------------------------------
(* C2: when collapsed is true and the user activates nothing, then after    *)
(* all scheduled callbacks have run every toggle control of the rendered    *)
(* tree is collapsed, with its nested list and placeholder, the root toggle *)
(* and those created by chunk callbacks alike; when collapsed is false no   *)
(* toggle is ever activated and every node stays expanded.  Checked under   *)
(* SpecAuto, the program without user events.                               *)
C2_InitialCollapseReachesEveryToggle ==
    pc = "returned" =>
        IF Opts.collapsed
        THEN Quiescent =>
                \A el \in WithClass(dom, "byJSONtoggle") :
                    /\ dom[el].collapsed
                    /\ \A s \in SiblingsWithClass(dom, el, "byJSONnest")
                              \cup SiblingsWithClass(dom, el, "byJSONplaceholder") : dom[s].collapsed
        ELSE /\ hist.type # "toggle"
             /\ \A tm \in timers : tm.cb.kind # "click"
             /\ \A n \in Nodes : ~dom[n].collapsed

\* collapsed is true, everything has run, and the tree holds the root toggle and toggles
\* that chunk callbacks created
C2_Witness ==
    /\ Quiescent /\ Opts.collapsed
    /\ \E el \in WithClass(dom, "byJSONtoggle") : dom[el].parent = Root /\ dom[el].collapsed
    /\ \E el \in WithClass(dom, "byJSONtoggle") :
          /\ dom[dom[el].parent].tag = "li"
          /\ SiblingsWithClass(dom, el, "byJSONnest") # {}
          /\ dom[el].collapsed

----------------------------------------------------------------------------
(* C3: in every reachable state the collapsed indicators of the toggle      *)
(* control, the nested list and the placeholder of a collapsible node       *)
(* agree, so exactly one of the nested list (shown when not collapsed) and  *)
(* the placeholder (shown when collapsed) is shown.                         *)
C3_IndicatorsAgree ==
    \A n \in Nests :
        /\ Cardinality(SiblingsWithClass(dom, n, "byJSONplaceholder")) = 1
        /\ \A p \in SiblingsWithClass(dom, n, "byJSONplaceholder") :
              /\ dom[p].collapsed = dom[n].collapsed
              /\ (~dom[n].collapsed) # dom[p].collapsed
        /\ \A el \in SiblingsWithClass(dom, n, "byJSONtoggle") : dom[el].collapsed = dom[n].collapsed

\* after a click, with chunk callbacks still pending, one node is collapsed and another expanded
C3_Witness ==
    /\ hist.type \in {"toggle", "placeholder"}
    /\ \E tm \in timers : tm.cb.kind = "li"
    /\ \E n \in Nests : dom[n].collapsed /\ SiblingsWithClass(dom, n, "byJSONtoggle") # {}
    /\ \E n \in Nests : ~dom[n].collapsed /\ SiblingsWithClass(dom, n, "byJSONtoggle") # {}

----------------------------------------------------------------------------
(* C4: two activations of the same toggle control in a row, with no other   *)
(* event in between, restore the heap as it was before the first: the same  *)
(* indicators on toggle, nested list and placeholder, the same children.    *)
C4_ToggleTwiceRestores ==
    (hist.type = "toggle" /\ hist.twice) => dom = hist.pre2

\* a toggle control with a nested list was activated twice in a row
C4_Witness ==
    /\ hist.type = "toggle" /\ hist.twice
    /\ \E n \in SiblingsWithClass(dom, hist.el, "byJSONnest") : dom[n].kids # <<>>
    /\ hist.pre # dom

----------------------------------------------------------------------------
(* C5: activating the placeholder of a collapsed node expands it, the state *)
(* change being exactly the one the activation of the node's toggle control *)
(* makes; when the placeholder has no toggle sibling nothing changes.       *)
C5_PlaceholderDelegates ==
    hist.type = "placeholder" =>
        LET toggles == SiblingsWithClass(hist.pre, hist.el, "byJSONtoggle")
            nests == SiblingsWithClass(hist.pre, hist.el, "byJSONnest")
        IN  IF toggles = {} THEN dom = hist.pre
            ELSE (\A n \in toggles \cup nests \cup {hist.el} : hist.pre[n].collapsed)
                    => dom = WithIndicator(hist.pre, toggles \cup nests \cup {hist.el}, FALSE)

\* the placeholder of a collapsed node was activated
C5_Witness ==
    /\ hist.type = "placeholder"
    /\ SiblingsWithClass(hist.pre, hist.el, "byJSONtoggle") # {}
    /\ hist.pre[hist.el].collapsed
    /\ ~dom[hist.el].collapsed

----------------------------------------------------------------------------
(* C6: in every rendered list or mapping with n >= 1 entries, each of the   *)
(* first n - 1 list items ends with the separator and the last has none.    *)
C6_SeparatorExceptLast ==
    (Quiescent /\ thrown = 0) =>
        \A n \in Nests : \A i \in 1..Len(dom[n].kids) :
            HasSeparator(dom[n].kids[i]) <=> (dom[dom[n].kids[i]].pos < dom[n].pos)

---------------------------------------------------------------------------------------------------------------------------------------------------
(* Reading JSON text back.  The text of a rendered tree: the text of its    *)
(* nodes in document order, the placeholder summaries left out.  ParseJSON  *)
(* reads a text by the JSON grammar (white space, null, true, false,        *)
(* integers, strings with the escapes \" \\ \/, arrays, objects) and fails  *)
(* on anything else, a comma before a closing bracket included.             *)

RECURSIVE TextOf(_)
TextOf(n) ==
    IF dom[n].cls = "byJSONplaceholder" THEN <<>>
    ELSE dom[n].text \o Flatten([i \in 1..Len(dom[n].kids) |-> TextOf(dom[n].kids[i])])

DocText == TextOf(Root)

VFalse == Val("boolean", <<"f","a","l","s","e">>, <<>>, <<>>, FALSE)

Fail == [ok |-> FALSE, v |-> VNull, i |-> 0]
Ok(v, i) == [ok |-> TRUE, v |-> v, i |-> i]

At(s, i) == IF i >= 1 /\ i <= Len(s) THEN s[i] ELSE ""

RECURSIVE SkipWs(_, _)
SkipWs(s, i) == IF At(s, i) = " " THEN SkipWs(s, i + 1) ELSE i

Digits == {"0","1","2","3","4","5","6","7","8","9"}

RECURSIVE DigitsEnd(_, _)
DigitsEnd(s, i) == IF At(s, i) \in Digits THEN DigitsEnd(s, i + 1) ELSE i

Literal(s, i, word, v) ==
    IF i + Len(word) - 1 <= Len(s) /\ SubSeq(s, i, i + Len(word) - 1) = word
    THEN Ok(v, i + Len(word)) ELSE Fail

\* the characters of a string from position i (after the opening quote) to the closing quote
RECURSIVE ParseChars(_, _, _)
ParseChars(s, i, acc) ==
    IF i > Len(s) THEN Fail
    ELSE IF s[i] = "\"" THEN Ok(VStr(acc), i + 1)
    ELSE IF s[i] = "\\"
    THEN IF At(s, i + 1) \in {"\"", "\\", "/"} THEN ParseChars(s, i + 2, Append(acc, s[i + 1])) ELSE Fail
    ELSE ParseChars(s, i + 1, Append(acc, s[i]))

RECURSIVE ParseValue(_, _)
RECURSIVE ParseElements(_, _, _)
RECURSIVE ParseMembers(_, _, _, _)

\* array elements from position i, the elements read so far in acc
ParseElements(s, i, acc) ==
    LET r == ParseValue(s, i) IN
    IF ~r.ok THEN Fail
    ELSE LET j == SkipWs(s, r.i) IN
         IF At(s, j) = "," THEN ParseElements(s, j + 1, Append(acc, r.v))
         ELSE IF At(s, j) = "]" THEN Ok(VArr(Append(acc, r.v)), j + 1)
         ELSE Fail

\* object members from position i
ParseMembers(s, i, keys, vals) ==
    LET k == SkipWs(s, i) IN
    IF At(s, k) # "\"" THEN Fail
    ELSE LET key == ParseChars(s, k + 1, <<>>) IN
         IF ~key.ok \/ At(s, SkipWs(s, key.i)) # ":" THEN Fail
         ELSE LET r == ParseValue(s, SkipWs(s, key.i) + 1) IN
              IF ~r.ok THEN Fail
              ELSE LET j == SkipWs(s, r.i) IN
                   IF At(s, j) = ","
                   THEN ParseMembers(s, j + 1, Append(keys, key.v.s), Append(vals, r.v))
                   ELSE IF At(s, j) = "}"
                   THEN Ok(VObj(Append(keys, key.v.s), Append(vals, r.v)), j + 1)
                   ELSE Fail

ParseValue(s, i) ==
    LET j == SkipWs(s, i)
        c == At(s, j)
    IN  IF c = "n" THEN Literal(s, j, <<"n","u","l","l">>, VNull)
        ELSE IF c = "t" THEN Literal(s, j, <<"t","r","u","e">>, VTrue)
        ELSE IF c = "f" THEN Literal(s, j, <<"f","a","l","s","e">>, VFalse)
        ELSE IF c \in Digits THEN Ok(VNum(SubSeq(s, j, DigitsEnd(s, j) - 1)), DigitsEnd(s, j))
        ELSE IF c = "-" /\ At(s, j + 1) \in Digits
        THEN Ok(VNum(SubSeq(s, j, DigitsEnd(s, j + 1) - 1)), DigitsEnd(s, j + 1))
        ELSE IF c = "\"" THEN ParseChars(s, j + 1, <<>>)
        ELSE IF c = "["
        THEN IF At(s, SkipWs(s, j + 1)) = "]" THEN Ok(VArr(<<>>), SkipWs(s, j + 1) + 1)
             ELSE ParseElements(s, j + 1, <<>>)
        ELSE IF c = "{"
        THEN IF At(s, SkipWs(s, j + 1)) = "}" THEN Ok(VObj(<<>>, <<>>), SkipWs(s, j + 1) + 1)
             ELSE ParseMembers(s, j + 1, <<>>, <<>>)
        ELSE Fail

\* the whole text is one JSON value
ParseJSON(s) ==
    LET r == ParseValue(s, 1) IN
    IF r.ok /\ SkipWs(s, r.i) = Len(s) + 1 THEN r ELSE Fail

\* null, number, boolean, string, list or mapping, all the way down
RECURSIVE IsJson(_)
IsJson(v) ==
    /\ v.k \in {"null", "number", "boolean", "string", "array", "object"}
    /\ ~v.big
    /\ \A i \in 1..Len(v.items) : IsJson(v.items[i])

(* C7: for every value v (null, number, boolean, string, list, mapping),    *)
(* once rendering has finished, the text of the rendered nodes in document  *)
(* order, the placeholder summaries left out, is JSON text that parses back *)
(* to v.                                                                    *)
C7_TextParsesBackToValue ==
    (Quiescent /\ IsJson(call.json)) =>
        (ParseJSON(DocText).ok /\ ParseJSON(DocText).v = call.json)

-----
(* C8: with chunkSize <= 0, chunkArr returns no chunks for every input, and *)
(* the rendering of a non-empty list or mapping returns from the entry      *)
(* point with the brackets and no children.                                 *)
C8_NonPositiveChunkSizeReturns ==
    (pc # "idle" /\ Opts.chunkSize <= 0 /\ call.json.k \in {"array", "object"}
        /\ ~(Opts.bigNumbers /\ call.json.big) /\ Len(call.json.items) > 0) =>
        /\ chunkArr(call.json.items, Opts.chunkSize) = [ended |-> TRUE, chunks |-> <<>>]
        /\ pc = "returned"
        /\ thrown = 0
        /\ \A n \in Nodes : dom[n].tag # "li"
        /\ \E n \in Nodes : dom[n].parent = Root /\ dom[n].tag = "#text"
                             /\ dom[n].text \in {<<"[">>, <<"{">>, <<"[","]">>, <<"{","}">>}

----------------------------------------------------------------------------
(* C9: a value of unsupported kind that is an entry of a list or mapping    *)
(* fails nothing: the callback that inserts it completes without error and  *)
(* the entry's list item is appended to the nested list.                    *)
C9_UnsupportedEntryStillInserted ==
    (hist.type = "li" /\ hist.k \in {"undefined", "function"}) =>
        /\ thrown = 0
        /\ Len(dom[hist.el].kids) = Len(hist.pre[hist.el].kids) + 1

----------------------------------------------------------------------------
(* C10: when a toggle control is activated and no nested list is found      *)
(* among its siblings, the visible state is the same as before the          *)
(* activation, the collapsed indicator of the toggle control included.      *)
C10_MissingNestLeavesStateUnchanged ==
    (hist.type = "toggle" /\ InDocument(hist.pre, hist.el)
        /\ SiblingsWithClass(hist.pre, hist.el, "byJSONnest") = {}) =>
        dom = hist.pre

----------------------------------------------------------------------------
(* The value a holder shows.  A holder is the container element or a list   *)
(* item of the document; a list item holds entry pos of the value of the    *)
(* holder its nested list sits in.                                          *)

ListItems == {n \in Nodes : dom[n].tag = "li" /\ InDocument(dom, n)}

Holders == {Root} \cup ListItems

RECURSIVE ValueOf(_)
ValueOf(h) == IF h = Root THEN call.json ELSE ValueOf(dom[dom[h].parent].parent).items[dom[h].pos]

\* a list or mapping with at least one entry
IsNonEmptyContainer(v) == v.k \in {"array", "object"} /\ Len(v.items) > 0

\* the children of holder h that are text nodes reading text
TextKids(h, text) == {k \in Nodes : dom[k].parent = h /\ dom[k].tag = "#text" /\ dom[k].text = text}

\* nested list n holds exactly one list item for each entry of its container
Complete(n) ==
    /\ Len(dom[n].kids) = dom[n].pos
    /\ \A p \in 1..dom[n].pos : \E k \in 1..Len(dom[n].kids) : dom[dom[n].kids[k]].pos = p

----------------------------------------------------------------------------
(* C11: a toggle control is created for a value exactly when the value is a *)
(* list or mapping with at least one entry: the container gets one iff      *)
(* rootCollapsable is true and the top-level value is such a value, every   *)
(* list item gets exactly one when its entry is such a value and none       *)
(* otherwise; a scalar or empty container has no nested list and no         *)
(* placeholder, and an empty container is the text [] or {}.                *)
C11_ToggleIffCollapsible ==
    (pc = "returned" /\ IsJson(call.json)) =>
        /\ Cardinality(KidsWithClass(dom, Root, "byJSONtoggle"))
              = (IF Opts.rootCollapsable /\ IsNonEmptyContainer(call.json) THEN 1 ELSE 0)
        /\ \A li \in ListItems :
              Cardinality(KidsWithClass(dom, li, "byJSONtoggle"))
                = (IF IsNonEmptyContainer(ValueOf(li)) THEN 1 ELSE 0)
        /\ \A h \in Holders :
              ~IsNonEmptyContainer(ValueOf(h)) =>
                 /\ KidsWithClass(dom, h, "byJSONnest") = {}
                 /\ KidsWithClass(dom, h, "byJSONplaceholder") = {}
                 /\ ValueOf(h).k = "array" => TextKids(h, <<"[","]">>) # {}
                 /\ ValueOf(h).k = "object" => TextKids(h, <<"{","}">>) # {}
        /\ Quiescent => \A n \in Nests : InDocument(dom, n) => Complete(n)

\* everything has run; the tree holds a list item with a toggle control, one with an empty
\* container and none, one with a scalar and none, and the root toggle
C11_Witness ==
    /\ Quiescent /\ IsJson(call.json)
    /\ KidsWithClass(dom, Root, "byJSONtoggle") # {}
    /\ \E li \in ListItems : KidsWithClass(dom, li, "byJSONtoggle") # {}
    /\ \E li \in ListItems : ValueOf(li).k = "array" /\ ValueOf(li).items = <<>>
                               /\ KidsWithClass(dom, li, "byJSONtoggle") = {}
    /\ \E li \in ListItems : ValueOf(li).k = "string"

----------------------------------------------------------------------------
\* s begins with http://, https://, ftp:// or ftps://
BeginsWithScheme(s) ==
    \/ startsWith(s, <<"h","t","t","p",":","/","/">>)
    \/ startsWith(s, <<"h","t","t","p","s",":","/","/">>)
    \/ startsWith(s, <<"f","t","p",":","/","/">>)
    \/ startsWith(s, <<"f","t","p","s",":","/","/">>)

\* the string leaves of holder h
StringLeaves(h) == KidsWithClass(dom, h, "byJSONstring")

(* C12: a string s is rendered as a link exactly when withLinks is true and *)
(* s begins with http://, https://, ftp:// or ftps://; the link's href is s *)
(* and its text is s in double quotes; every other string is rendered as a  *)
(* string span.                                                             *)
C12_LinkExactlyForUrls ==
    pc = "returned" =>
        \A h \in Holders :
            ValueOf(h).k = "string" =>
                /\ Cardinality(StringLeaves(h)) = 1
                /\ \A n \in StringLeaves(h) :
                      IF Opts.withLinks /\ BeginsWithScheme(ValueOf(h).s)
                      THEN /\ dom[n].tag = "a"
                           /\ dom[n].href = ValueOf(h).s
                           /\ dom[n].text = Quoted(ValueOf(h).s)
                      ELSE dom[n].tag = "span"

----------------------------------------------------------------------------
\* ceil(n / s) for s >= 1
CeilDiv(n, s) == (n + s - 1) \div s

\* the pending insertions into nested list n
Insertions(n) == {tm \in timers : tm.cb.kind = "li" /\ tm.cb.target = n}

(* C13: a container of n entries rendered with chunkSize s >= 1 is          *)
(* populated by exactly ceil(n/s) scheduled callbacks, one per batch, and   *)
(* callback k inserts entries k*s .. min(n,(k+1)*s)-1 in order in one turn: *)
(* when byJSONviewer returns, ceil(n/s) insertions are pending for the      *)
(* nested list, and after every turn the nested list holds a whole number   *)
(* of batches (or all n entries), in source order.                          *)
C13_OneCallbackPerBatch ==
    (pc = "returned" /\ Opts.chunkSize >= 1 /\ thrown = 0) =>
        /\ hist.type = "render" =>
              \A n \in Nests : Cardinality(Insertions(n)) = CeilDiv(dom[n].pos, Opts.chunkSize)
        /\ \A n \in Nests :
              /\ Len(dom[n].kids) % Opts.chunkSize = 0 \/ Len(dom[n].kids) = dom[n].pos
              /\ PosSeq(n) = [i \in 1..Len(dom[n].kids) |-> i]

----------------------------------------------------------------------------
(* C14: with bigNumbers true, every big-number-like object, at the root or  *)
(* as an entry of a container, is rendered as one literal holding its own   *)
(* string conversion, with no toggle control, no nested list and no         *)
(* placeholder, whatever own keys it has.                                   *)
C14_BigNumberIsOneLiteral ==
    (pc = "returned" /\ Opts.bigNumbers) =>
        \A h \in Holders :
            ValueOf(h).big =>
                /\ KidsWithClass(dom, h, "byJSONtoggle") = {}
                /\ KidsWithClass(dom, h, "byJSONnest") = {}
                /\ KidsWithClass(dom, h, "byJSONplaceholder") = {}
                /\ Cardinality(KidsWithClass(dom, h, "byJSONliteral")) = 1
                /\ \A n \in KidsWithClass(dom, h, "byJSONliteral") : dom[n].text = ValueOf(h).s

----------------------------------------------------------------------------
\* the defaults as documented
DocumentedDefaults ==
    [collapsed |-> FALSE, rootCollapsable |-> TRUE, withQuotes |-> TRUE, withLinks |-> TRUE,
     bigNumbers |-> FALSE, chunkSize |-> 999, chunkLatency |-> 33]

\* the caller's value of field f, the documented default when the caller leaves f out
Effective(f) == IF f \in DOMAIN call.options THEN call.options[f] ELSE DocumentedDefaults[f]

\* the list items of the document that show an entry of a mapping
KeyedItems == {li \in ListItems : dom[dom[li].parent].tag = "ul"}

\* the text node that shows the key of keyed list item li
KeyNode(li) == Head(SelectSeq(dom[li].kids, LAMBDA k : dom[k].tag = "#text"))

EndsWith(s, t) == Len(s) >= Len(t) /\ SubSeq(s, Len(s) - Len(t) + 1, Len(s)) = t

----------------------------------------------------------------------------
\* holder h shows value v and nothing else: a scalar as its one leaf, an empty container as its
\* text, a list or mapping as one nested list with one list item per entry, each showing its entry
RECURSIVE Shows(_, _)
Shows(h, v) ==
    IF v.k \in {"null", "number", "boolean"}
    THEN /\ KidsWithClass(dom, h, "byJSONnest") = {}
         /\ \E n \in KidsWithClass(dom, h, "byJSONliteral") :
               dom[n].text = v.s /\ KidsWithClass(dom, h, "byJSONliteral") = {n}
    ELSE IF v.k = "string"
    THEN KidsWithClass(dom, h, "byJSONnest") = {} /\ Cardinality(KidsWithClass(dom, h, "byJSONstring")) = 1
    ELSE IF v.items = <<>>
    THEN KidsWithClass(dom, h, "byJSONnest") = {}
         /\ TextKids(h, IF v.k = "array" THEN <<"[","]">> ELSE <<"{","}">>) # {}
    ELSE \E n \in KidsWithClass(dom, h, "byJSONnest") :
            /\ KidsWithClass(dom, h, "byJSONnest") = {n}
            /\ dom[n].pos = Len(v.items)
            /\ Complete(n)
            /\ \A i \in 1..Len(dom[n].kids) : Shows(dom[n].kids[i], v.items[dom[dom[n].kids[i]].pos])

\* the nodes of the document in heap d, with their records
Document(d) == {<<n, d[n]>> : n \in {i \in 1..Len(d) : InDocument(d, i)}}

(* C16: after a second render call on the container, the container holds    *)
(* nothing that existed before the call; every callback scheduled by the    *)
(* first call still pending targets a node outside the document, and a      *)
(* callback whose target is outside the document adds no node to the        *)
(* document and changes no node of it; once all callbacks have run the      *)
(* container shows the value of the second call.  Checked under SpecAgain.  *)
C16_RenderReplacesEarlierContent ==
    pc = "again" =>
        /\ \A n \in 2..call.base : ~InDocument(dom, n)
        /\ \A tm \in timers : tm.seq <= call.seq0 => ~InDocument(dom, tm.cb.target)
        /\ (hist.type \in {"li", "toggle"} /\ ~InDocument(hist.pre, hist.el)) =>
              Document(dom) = Document(hist.pre)
        /\ timers = {} => Shows(Root, call.json)

\* a callback of the first call ran after the second call, as the last of all, and the
\* container shows a mapping with a nested list
C16_Witness ==
    /\ pc = "again" /\ timers = {}
    /\ hist.type \in {"li", "toggle"} /\ hist.el <= call.base
    /\ Len(dom[hist.el].kids) > Len(hist.pre[hist.el].kids)
    /\ \E li \in ListItems : KidsWithClass(dom, li, "byJSONnest") # {}

----------------------------------------------------------------------------
\* the nested lists that the last event took from expanded to collapsed
JustCollapsed ==
    {n \in Nests : hist.type \in {"toggle", "placeholder"} /\ n <= Len(hist.pre)
                    /\ ~hist.pre[n].collapsed /\ dom[n].collapsed}

\* "<count> item" for count <= 1, "<count> items" for count > 1
Summary(count) ==
    DecChars(count) \o (IF count > 1 THEN <<" ","i","t","e","m","s">> ELSE <<" ","i","t","e","m">>)

\* the node right after nested list n is its placeholder, and reads the summary of count
PlaceholderFollows(n, count) ==
    LET kids == dom[dom[n].parent].kids
        at == IndexOf(kids, n)
    IN  /\ at < Len(kids)
        /\ dom[kids[at + 1]].cls = "byJSONplaceholder"
        /\ dom[kids[at + 1]].text = Summary(count)

(* C17 as stated: whenever a node goes from expanded to collapsed, its      *)
(* placeholder sits right after its nested list and reads "<count> item(s)" *)
(* where count is the number of children the nested list has at that        *)
(* moment, also when chunk callbacks of the container are still pending.    *)
C17_CountIsChildrenAtCollapse ==
    \A n \in JustCollapsed : PlaceholderFollows(n, Len(dom[n].kids))

(* C17 amended: whenever a node goes from expanded to collapsed, its        *)
(* placeholder sits right after its nested list and reads "<count> item(s)" *)
(* where count is the number of entries of the list or mapping the node     *)
(* shows, whether or not chunk callbacks of the container are still         *)
(* pending.                                                                 *)
C17_CountIsEntriesOfValue ==
    \A n \in JustCollapsed : PlaceholderFollows(n, dom[n].pos)

\* a node with several entries was collapsed while insertions into its nested list were pending
C17_Witness ==
    \E n \in JustCollapsed :
        /\ Len(dom[n].kids) < dom[n].pos
        /\ dom[n].pos > 1
        /\ Insertions(n) # {}

----------------------------------------------------------------------------
\* chunkLatency times the chunk index of source position pos, plus the offset inside the chunk
\* for a list
StatedDelay(pos, isObj) ==
    Opts.chunkLatency * (((pos - 1) \div Opts.chunkSize)
                         + (IF isObj THEN 0 ELSE (pos - 1) % Opts.chunkSize))

(* C18: for any two entries of one container at source positions p < q, the *)
(* insertion of p is scheduled with a delay less than or equal to that of   *)
(* q, for lists and mappings, every chunkSize >= 1 and any number of        *)
(* chunks; the delay of an item is chunkLatency times its chunk index (plus *)
(* the offset inside the chunk for lists).                                  *)
C18_DelayMonotonicInPosition ==
    (pc = "returned" /\ Opts.chunkSize >= 1) =>
        /\ \A n \in Nests : \A tp, tq \in Insertions(n) :
              tp.cb.pos < tq.cb.pos => tp.due <= tq.due
        /\ hist.type = "render" =>
              \A n \in Nests : \A tm \in Insertions(n) :
                  tm.due - now = StatedDelay(tm.cb.pos, tm.cb.isObj)

----------------------------------------------------------------------------
(* C19: the deferred initial collapse of a toggle control runs only after   *)
(* the nested list of the same node has been created as its sibling, for    *)
(* the root toggle and for every toggle created in a chunk callback: for    *)
(* list and mapping values no diagnostic of a missing nested list is ever   *)
(* logged, every pending click already has its nested list, and so had      *)
(* every toggle at the moment its click ran.  Checked under SpecAuto, where *)
(* every activation is the programmatic one.                                *)
C19_InitialCollapseAfterNest ==
    (pc = "returned" /\ IsJson(call.json)) =>
        /\ logged = 0
        /\ \A tm \in timers :
              tm.cb.kind = "click" => SiblingsWithClass(dom, tm.cb.target, "byJSONnest") # {}
        /\ hist.type = "toggle" => SiblingsWithClass(hist.pre, hist.el, "byJSONnest") # {}

\* the deferred click of a toggle control that a chunk callback created has run, after that of
\* the root toggle
C19_Witness ==
    /\ pc = "returned" /\ IsJson(call.json) /\ Opts.collapsed
    /\ hist.type = "toggle"
    /\ dom[dom[hist.el].parent].tag = "li"
    /\ \A n \in SiblingsWithClass(dom, hist.el, "byJSONnest") : dom[n].collapsed
    /\ \E el \in KidsWithClass(dom, Root, "byJSONtoggle") : dom[el].collapsed

----------------------------------------------------------------------------
\* the sequence the call hands to chunkArr: the elements of a list, the entries of a mapping
CallEntries == IF call.json.k = "array" THEN call.json.items ELSE Entries(call.json)

\* chunks are ceil(Len(arr)/size) sub-sequences that concatenate to arr, each of length size
\* except the last, whose length is between 1 and size
IsChunking(chunks, arr, size) ==
    /\ Len(chunks) = CeilDiv(Len(arr), size)
    /\ Flatten(chunks) = arr
    /\ \A i \in 1..(Len(chunks) - 1) : Len(chunks[i]) = size
    /\ chunks # <<>> => Len(chunks[Len(chunks)]) \in 1..size

(* C20: for every sequence and every size >= 1, chunkArr(sequence, size)    *)
(* returns ceil(length/size) sub-sequences whose concatenation in order is  *)
(* the sequence, each of length size except the last, whose length is       *)
(* between 1 and size; for the empty sequence it returns no chunks.         *)
(* Checked on every prefix of the sequence each call hands to chunkArr,     *)
(* and on what the call then schedules: one insertion per entry, entry by   *)
(* entry in the order of the chunks.                                        *)
C20_ChunksPartitionTheSequence ==
    (pc # "idle" /\ call.json.k \in {"array", "object"} /\ Opts.chunkSize >= 1) =>
        /\ \A len \in 0..Len(CallEntries) :
              /\ chunkArr(SubSeq(CallEntries, 1, len), Opts.chunkSize).ended
              /\ IsChunking(chunkArr(SubSeq(CallEntries, 1, len), Opts.chunkSize).chunks,
                            SubSeq(CallEntries, 1, len), Opts.chunkSize)
        /\ chunkArr(<<>>, Opts.chunkSize).chunks = <<>>
        /\ (hist.type = "render" /\ ~(Opts.bigNumbers /\ call.json.big)) =>
              \A n \in KidsWithClass(dom, Root, "byJSONnest") :
                  /\ {tm.cb.pos : tm \in Insertions(n)} = 1..Len(CallEntries)
                  /\ \A tm \in Insertions(n) : tm.cb.item = call.json.items[tm.cb.pos]
                  /\ \A tp, tq \in Insertions(n) : tp.cb.pos < tq.cb.pos => tp.seq < tq.seq

\* a list of four was rendered with chunkSize 3: a full chunk and a shorter last one
C20_Witness ==
    /\ hist.type = "render" /\ pc = "returned"
    /\ call.json.k = "array" /\ Len(call.json.items) = 4 /\ Opts.chunkSize = 3
    /\ Len(chunkArr(CallEntries, Opts.chunkSize).chunks) = 2
    /\ \E n \in KidsWithClass(dom, Root, "byJSONnest") : Cardinality(Insertions(n)) = 4

----------------------------------------------------------------------------
(* The sibling lookup on its own: a page whose container holds up to        *)
(* MaxSiblings children, each a plain element, an element whose class is    *)
(* the match, an element whose id is the match, or a text node; the lookup  *)
(* is applied to any node for the match and for a name nothing carries.     *)
MaxSiblings == 4

Match == "byJSONnest"

SiblingKinds == {"other", "class", "id", "text"}

SiblingNode(kind) ==
    [Node(IF kind = "text" THEN "#text" ELSE "span", IF kind = "class" THEN Match ELSE "", <<>>, <<>>)
        EXCEPT !.id = IF kind = "id" THEN Match ELSE "", !.parent = Root]

SiblingHeap(kinds) ==
    << [Node("pre", "", <<>>, <<>>) EXCEPT !.kids = [i \in 1..Len(kinds) |-> i + 1]] >>
    \o [i \in 1..Len(kinds) |-> SiblingNode(kinds[i])]

SiblingHeaps == {SiblingHeap(kinds) : kinds \in UNION {[1..n -> SiblingKinds] : n \in 1..MaxSiblings}}

InitSibling ==
    /\ dom \in SiblingHeaps
    /\ timers = {}
    /\ now = 0
    /\ seq = 0
    /\ pc = "page"
    /\ call = [json |-> VNull, options |-> OptionsObject([f \in Fields |-> <<>>]), base |-> 0, seq0 |-> 0]
    /\ thrown = 0
    /\ logged = 0
    /\ hist = Event("none", 0, "", FALSE, <<>>, <<>>)
    /\ listeners = 0

\* a call getSiblingByIdOrClass(element, match) and what it returned
Lookup ==
    /\ pc = "page"
    /\ \E element \in 1..Len(dom), match \in {Match, "absent"} :
          hist' = [type |-> "lookup", el |-> element, k |-> match, twice |-> FALSE, pre |-> dom,
                   pre2 |-> <<>>, found |-> getSiblingByIdOrClass(dom, element, match)]
    /\ UNCHANGED <<dom, timers, now, seq, pc, call, thrown, logged, listeners>>

NextSibling == Lookup

SpecSibling == InitSibling /\ [][NextSibling]_vars

\* the positions, among the siblings of the node looked up from, of the elements carrying the match
Carriers(d, kids, match) ==
    {i \in 1..Len(kids) : d[kids[i]].tag # "#text" /\ (d[kids[i]].id = match \/ d[kids[i]].cls = match)}

Family(d, n) == IF d[n].parent = 0 THEN <<n>> ELSE d[d[n].parent].kids

CarriersBefore == {i \in Carriers(hist.pre, Family(hist.pre, hist.el), hist.k) :
                      i < IndexOf(Family(hist.pre, hist.el), hist.el)}

CarriersAfter == {i \in Carriers(hist.pre, Family(hist.pre, hist.el), hist.k) :
                     i > IndexOf(Family(hist.pre, hist.el), hist.el)}

\* C21: the sibling lookup returns the nearest preceding sibling element whose
\* id or class is the match if there is one (even when a following one is
\* closer), otherwise the nearest following one, otherwise nothing, and never
\* the node it was called for.
C21_NearestPrecedingElseFollowing ==
    hist.type = "lookup" =>
        /\ hist.found # hist.el
        /\ CarriersBefore # {} => hist.found = Family(hist.pre, hist.el)[SetMax(CarriersBefore)]
        /\ (CarriersBefore = {} /\ CarriersAfter # {}) =>
               hist.found = Family(hist.pre, hist.el)[SetMin(CarriersAfter)]
        /\ (CarriersBefore = {} /\ CarriersAfter = {}) => hist.found = 0

\* a match two places before the node and another right after it: the one before is returned
C21_Witness ==
    /\ hist.type = "lookup"
    /\ CarriersBefore # {} /\ CarriersAfter # {}
    /\ IndexOf(Family(hist.pre, hist.el), hist.el) - SetMax(CarriersBefore) >
           SetMin(CarriersAfter) - IndexOf(Family(hist.pre, hist.el), hist.el)
    /\ hist.pre[hist.el].cls = hist.k
    /\ hist.found = Family(hist.pre, hist.el)[SetMax(CarriersBefore)]

----------------------------------------------------------------------------
(* Strings on their own: the page renders one string, any of the strings of *)
(* up to MaxTextLen characters over the five escaped characters, a letter   *)
(* and a semicolon, or a string that already reads as an entity.            *)
MaxTextLen == 3

TextAlphabet == {"&", "<", ">", "'", "\"", "a", ";"}

EntityTexts ==
    { <<"&","a","m","p",";">>, <<"&","l","t",";">>, <<"&","q","u","o","t",";">>,
      <<"&","a","m","p",";","l","t",";">> }

Texts == UNION {[1..n -> TextAlphabet] : n \in 0..MaxTextLen} \cup EntityTexts

\* the page calls byJSONviewer(container, text) with no options
RenderText ==
    /\ pc = "idle"
    /\ \E text \in Texts :
          LET r == byJSONviewer(Machine, now, Root, VStr(text), OptionsObject([f \in Fields |-> <<>>])) IN
          /\ Install(r.m)
          /\ pc' = IF r.hung THEN "hung" ELSE "returned"
          /\ call' = [json |-> VStr(text), options |-> OptionsObject([f \in Fields |-> <<>>]),
                      base |-> Len(dom), seq0 |-> seq]
    /\ hist' = Event("render", Root, "", FALSE, dom, <<>>)
    /\ UNCHANGED <<now, listeners>>

NextText == RenderText

SpecText == Init /\ [][NextText]_vars

\* the entity of one character, the character itself if it has none
EntityOf(ch) ==
    CASE ch = "&"  -> <<"&","a","m","p",";">>
      [] ch = "<"  -> <<"&","l","t",";">>
      [] ch = ">"  -> <<"&","g","t",";">>
      [] ch = "'"  -> <<"&","a","p","o","s",";">>
      [] ch = "\"" -> <<"&","q","u","o","t",";">>
      [] OTHER     -> <<ch>>

Escaped == {"&", "<", ">", "'", "\""}

\* s read from the left, each of the five entities replaced by its character
RECURSIVE Unescape(_)
Unescape(s) ==
    IF s = <<>> THEN <<>>
    ELSE IF \E ch \in Escaped : startsWith(s, EntityOf(ch))
    THEN LET ch == CHOOSE c \in Escaped : startsWith(s, EntityOf(c))
         IN  <<ch>> \o Unescape(SubSeq(s, Len(EntityOf(ch)) + 1, Len(s)))
    ELSE <<Head(s)>> \o Unescape(Tail(s))

\* the text between the two quotes of the string leaf the call appended
ShownString ==
    LET leaf == CHOOSE k \in StringLeaves(Root) : TRUE
    IN  SubSeq(dom[leaf].text, 2, Len(dom[leaf].text) - 1)

\* C22: htmlEscape replaces every &, <, >, ' and " by its own entity and
\* leaves every other character as it is (the ampersands of the entities it
\* writes are not escaped again), and replacing the five entities back gives
\* the string that was escaped, also when that string already held entity text.
C22_EscapeIsInvertible ==
    (hist.type = "render" /\ pc = "returned" /\ call.json.k = "string") =>
        /\ Cardinality(StringLeaves(Root)) = 1
        /\ ShownString = Flatten([i \in 1..Len(call.json.s) |-> EntityOf(call.json.s[i])])
        /\ ShownString = htmlEscape(call.json.s)
        /\ Unescape(ShownString) = call.json.s

\* the string &amp;lt; was rendered: its ampersand is escaped once more and comes back
C22_Witness ==
    /\ hist.type = "render" /\ pc = "returned"
    /\ call.json.s = <<"&","a","m","p",";","l","t",";">>
    /\ ShownString = <<"&","a","m","p",";","a","m","p",";","l","t",";">>
    /\ Unescape(ShownString) = call.json.s

----------------------------------------------------------------------------
\* the text a string span is to show: the string in double quotes, each double quote of the
\* string written as a backslash and a quote
BackslashQuoted(s) == Quoted(ReplaceAll(s, "\"", <<"\\", "\"">>))

\* C23: a string that is not rendered as a link is rendered as a string span
\* whose text is the string wrapped in double quotes, every double-quote
\* character of the string shown as a backslash followed by the quote.
C23_StringSpanShowsBackslashQuote ==
    pc = "returned" =>
        \A h \in Holders :
            ValueOf(h).k = "string" =>
                \A n \in StringLeaves(h) :
                    dom[n].tag = "span" => dom[n].text = BackslashQuoted(ValueOf(h).s)

----------------------------------------------------------------------------
(* The event loop runs a timer callback that is due: a callback that is     *)
(* pending is run at some time.  The steps that run a callback (RunClick,   *)
(* RunInsert) are the steps of NextAuto that record the callback that was   *)
(* due as the last event, and one is possible whenever a callback is        *)
(* pending; the fairness condition is stated on that record.                *)
Dequeue ==
    /\ Running
    /\ timers # {}
    /\ hist' = IF NextTimer.cb.kind = "click"
               THEN ToggleEvent(NextTimer.cb.target)
               ELSE Event("li", NextTimer.cb.target, NextTimer.cb.item.k, FALSE, dom, <<>>)

SpecFair == Init /\ [][NextAuto]_vars /\ WF_hist(Dequeue)

\* nothing is pending and every nested list holds one list item for each entry of its container
Populated == pc = "returned" /\ timers = {} /\ thrown = 0 /\ \A n \in Nests : Complete(n)

\* C24: for every JSON value and every chunkSize >= 1 rendering terminates:
\* byJSONviewer returns, every callback it or a callback scheduled runs once
\* at some time, after which no callback is pending ever again, and from
\* then on every nested list of a container with n entries has exactly n
\* list items.
C24_RenderingTerminates ==
    /\ []((pc # "idle" /\ IsJson(call.json) /\ Opts.chunkSize >= 1) => <>[]Populated)
    /\ [][(IsJson(call.json) /\ Opts.chunkSize >= 1) =>
              /\ Cardinality(timers \ timers') <= 1
              /\ \A tm \in timers' \ timers : tm.seq > seq /\ tm.seq <= seq']_vars

\* a list of four items in chunks of three, all inserted, and nothing pending
C24_Witness ==
    /\ Populated
    /\ call.json.k = "array" /\ Len(call.json.items) = 4 /\ Opts.chunkSize = 3
    /\ seq - call.seq0 >= 4
    /\ \E n \in KidsWithClass(dom, Root, "byJSONnest") : Len(dom[n].kids) = 4

----------------------------------------------------------------------------
\* the list items of nested list n that show entry p, and the insertions of entry p still pending
ItemsAt(n, p) == {k \in 1..Len(dom[n].kids) : dom[dom[n].kids[k]].pos = p}

PendingAt(n, p) == {tm \in Insertions(n) : tm.cb.pos = p}

\* C25: collapsing does not interfere with population. However the clicks
\* on toggle controls and placeholders interleave with the pending
\* insertions of a JSON value, each insertion appends its list item to its
\* nested list, collapsed or not, and changes no collapsed indicator; every
\* entry of a container is at all times either pending or shown, exactly
\* once.
C25_PopulationIgnoresCollapse ==
    (pc = "returned" /\ IsJson(call.json)) =>
        /\ hist.type = "li" =>
              /\ Len(dom[hist.el].kids) = Len(hist.pre[hist.el].kids) + 1
              /\ SubSeq(dom[hist.el].kids, 1, Len(hist.pre[hist.el].kids)) = hist.pre[hist.el].kids
              /\ dom[dom[hist.el].kids[Len(dom[hist.el].kids)]].tag = "li"
              /\ \A n \in 1..Len(hist.pre) : dom[n].collapsed = hist.pre[n].collapsed
        /\ \A n \in Nests : \A p \in 1..dom[n].pos :
              Cardinality(ItemsAt(n, p)) + Cardinality(PendingAt(n, p)) = 1

\* an insertion into a nested list that a click collapsed while it was being populated
C25_Witness ==
    /\ pc = "returned" /\ IsJson(call.json) /\ ~Opts.collapsed
    /\ hist.type = "li"
    /\ hist.pre[hist.el].collapsed /\ dom[hist.el].collapsed
    /\ Len(hist.pre[hist.el].kids) >= 1
    /\ Len(dom[hist.el].kids) = Len(hist.pre[hist.el].kids) + 1
    /\ Insertions(hist.el) # {}

----------------------------------------------------------------------------
Roles == {"byJSONtoggle", "byJSONnest", "byJSONplaceholder"}

\* the toggle control, nested list and placeholder of the collapsible node that el belongs to
OwnControls(d, el) == {el} \cup UNION {SiblingsWithClass(d, el, cls) : cls \in Roles}

\* C26: a click on the toggle control or the placeholder of one collapsible
\* node changes nothing but the collapsed indicators of that node's own
\* toggle control, nested list and placeholder: every other node of the
\* page, its collapsed indicator and its children included, is as before.
C26_ActivationTouchesOwnNodeOnly ==
    hist.type \in {"toggle", "placeholder"} =>
        /\ Len(dom) = Len(hist.pre)
        /\ \A n \in 1..Len(dom) :
              IF n \in OwnControls(hist.pre, hist.el)
              THEN [dom[n] EXCEPT !.collapsed = hist.pre[n].collapsed] = hist.pre[n]
              ELSE dom[n] = hist.pre[n]

\* a click on the toggle control of a nested node collapsed its list while the root's list,
\* expanded, and a sibling node's list were left as they were
C26_Witness ==
    /\ hist.type = "toggle"
    /\ dom[hist.el].parent # Root /\ InDocument(dom, hist.el)
    /\ \E n \in SiblingsWithClass(dom, hist.el, "byJSONnest") :
          dom[n].collapsed /\ ~hist.pre[n].collapsed /\ Len(dom[n].kids) > 0
    /\ \E n \in KidsWithClass(dom, Root, "byJSONnest") : ~dom[n].collapsed
    /\ \E n \in Nests : n \notin OwnControls(dom, hist.el) /\ dom[n].parent # Root /\ InDocument(dom, n)

----------------------------------------------------------------------------
\* C27: in every reachable state the root container and every list item of
\* the rendered tree has among its children at most one toggle control, at
\* most one nested list and at most one placeholder, so the sibling lookup
\* from one of the three for another finds the one of the same node.
C27_AtMostOneOfEachRole ==
    \A h \in Holders :
        /\ \A cls \in Roles : Cardinality(KidsWithClass(dom, h, cls)) <= 1
        /\ \A own \in Roles : \A other \in Roles \ {own} :
              \A el \in KidsWithClass(dom, h, own) :
                  KidsWithClass(dom, h, other) \in { {}, {getSiblingByIdOrClass(dom, el, other)} }

\* the root and a list item each hold a toggle control, a nested list and a placeholder, the
\* nested list of the root in several chunks
C27_Witness ==
    /\ pc = "returned"
    /\ Len(chunkArr(CallEntries, Opts.chunkSize).chunks) >= 2
    /\ \A cls \in Roles : Cardinality(KidsWithClass(dom, Root, cls)) = 1
    /\ \E li \in ListItems : \A cls \in Roles : Cardinality(KidsWithClass(dom, li, cls)) = 1

----------------------------------------------------------------------------
(* The earlier variant, src/unnamed/part_000: byJSONviewer builds the HTML  *)
(* text of the whole value, assigns it to element.innerHTML, registers a    *)
(* click listener on the container, and with collapsed set clicks every     *)
(* toggle control.  The HTML text and its parsing are modelled together:    *)
(* each piece of the text is appended as the node the parser makes of it.   *)

\* most calls of byJSONviewer on the container
MaxRenders == 2

\* most placeholders created after a call of byJSONviewer
MaxCollapses == 3

Defaults_000 ==
    [collapsed |-> FALSE, rootCollapsable |-> TRUE, withQuotes |-> FALSE, withLinks |-> TRUE,
     bigNumbers |-> FALSE]

\* { collapsed: false, ..., ...options }
mergeOptions_000(options) ==
    [f \in DOMAIN Defaults_000 |-> IF f \in DOMAIN options THEN options[f] ELSE Defaults_000[f]]

isCollapsable_000(arg) == InstanceOfObject(arg) /\ NumKeys(arg) > 0

\* characters between tags: they extend the text node before them, if there is one
appendChars(d, parent, text) ==
    IF text = <<>> THEN d
    ELSE IF Len(d[parent].kids) > 0 /\ d[d[parent].kids[Len(d[parent].kids)]].tag = "#text"
    THEN [d EXCEPT ![d[parent].kids[Len(d[parent].kids)]].text = @ \o text]
    ELSE appendNew(d, parent, Node("#text", "", text, <<>>))

\* json.replace(/&quot;/g, "\\&quot;")
RECURSIVE backslashQuot(_)
backslashQuot(s) ==
    IF s = <<>> THEN <<>>
    ELSE IF startsWith(s, <<"&","q","u","o","t",";">>)
    THEN <<"\\","&","q","u","o","t",";">> \o backslashQuot(SubSeq(s, 7, Len(s)))
    ELSE <<Head(s)>> \o backslashQuot(Tail(s))

\* the string branch, json the escaped string; the parser reads the entities back
string_000(d, parent, options, json) ==
    IF options.withLinks /\ isUrl(json)
    THEN appendNew(d, parent, Node("a", "byJSONstring", Unescape(json), Unescape(json)))
    ELSE appendNew(d, parent, Node("span", "byJSONstring", Unescape(Quoted(backslashQuot(json))), <<>>))

literal_000(d, parent, text) == appendNew(d, parent, Node("span", "byJSONliteral", text, <<>>))

\* `<a href="#" class="byJSONtoggle"></a>`
toggle_000(d, parent) == appendNew(d, parent, Node("a", "byJSONtoggle", <<>>, <<"#">>))

\* keyRepr inside element holder (the list item or the toggle control of the entry)
keyRepr_000(d, holder, options, key) ==
    IF options.withQuotes
    THEN appendNew(d, holder, Node("span", "byJSONstring", Unescape(Quoted(key)), <<>>))
    ELSE appendChars(d, holder, Unescape(key))

\* what precedes the value in a list item: the toggle control, the key and ": "
head_000(d, li, options, isObj, key, item) ==
    IF ~isObj THEN (IF isCollapsable_000(item) THEN toggle_000(d, li) ELSE d)
    ELSE appendChars(IF isCollapsable_000(item)
                     THEN keyRepr_000(toggle_000(d, li), Len(d) + 1, options, htmlEscape(key))
                     ELSE keyRepr_000(d, li, options, htmlEscape(key)),
                     li, <<":"," ">>)

\* `${i < json.length - 1 ? "," : ""}`
tail_000(d, li, i, n) == IF i < n THEN appendChars(d, li, <<",">>) ELSE d

RECURSIVE json2html_000(_, _, _, _)
RECURSIVE items_000(_, _, _, _, _)

\* the list items of entries i.. of container json, appended to list
items_000(d, list, json, options, i) ==
    IF i > Len(json.items) THEN d
    ELSE items_000(
             tail_000(json2html_000(head_000(appendNew(d, list, [Node("li", "", <<>>, <<>>) EXCEPT
                                                                    !.pos = i]),
                                             Len(d) + 1, options, json.k = "object", json.keys[i],
                                             json.items[i]),
                                    Len(d) + 1, json.items[i], options),
                      Len(d) + 1, i, Len(json.items)),
             list, json, options, i + 1)

\* open, the list with its items, close
container_000(d, parent, json, options, open, close, tag, cls) ==
    IF Len(json.items) = 0 THEN appendChars(d, parent, open \o close)
    ELSE appendChars(items_000(appendNew(appendChars(d, parent, open), parent,
                                         [Node(tag, cls, <<>>, <<>>) EXCEPT !.pos = Len(json.items)]),
                               Len(appendChars(d, parent, open)) + 1, json, options, 1),
                     parent, close)

\* json2html(json, options) of part_000, parsed into children of parent
json2html_000(d, parent, json, options) ==
    CASE json.k = "null" -> literal_000(d, parent, json.s)
      [] json.k \in {"number", "boolean"} -> literal_000(d, parent, json.s)
      [] json.k = "array" -> container_000(d, parent, json, options, <<"[">>, <<"]">>, "ol", "byJSONarray")
      [] json.k = "string" -> string_000(d, parent, options, htmlEscape(json.s))
      [] json.k = "object" ->
            IF options.bigNumbers /\ json.big THEN literal_000(d, parent, json.s)
            ELSE container_000(d, parent, json, options, <<"{">>, <<"}">>, "ul", "byJSONdict")
      [] OTHER -> d

\* the nodes below n, in document order
RECURSIVE Preorder(_, _)
Preorder(d, n) == <<n>> \o Flatten([i \in 1..Len(d[n].kids) |-> Preorder(d, d[n].kids[i])])

\* element.querySelectorAll("a.byJSONtoggle")
querySelectorAll_000(d, element) ==
    SelectSeq(Tail(Preorder(d, element)), LAMBDA n : d[n].tag = "a" /\ d[n].cls = "byJSONtoggle")

\* target.children.length
childrenLength(d, target) == Len(SelectSeq(d[target].kids, LAMBDA k : IsElement(d, k)))

\* target.after(placeholder) with a placeholder just created
after_000(d, target, placeholder) ==
    [Append(d, [placeholder EXCEPT !.parent = d[target].parent])
        EXCEPT ![d[target].parent].kids =
                   SubSeq(@, 1, IndexOf(@, target)) \o <<Len(d) + 1>>
                   \o SubSeq(@, IndexOf(@, target) + 1, Len(@))]

\* placeholder.remove() when the next element sibling is a placeholder
remove_000(d, placeholder) ==
    IF placeholder # 0 /\ d[placeholder].cls = "byJSONplaceholder"
    THEN [d EXCEPT ![d[placeholder].parent].kids = Remove(@, placeholder), ![placeholder].parent = 0]
    ELSE d

\* the listener's first branch from `if (target)` on, target the toggle's next element sibling
collapseOrExpand_000(d, target) ==
    IF target = 0 THEN d
    ELSE IF d[target].display = "none"
    THEN remove_000([d EXCEPT ![target].collapsed = ~@, ![target].display = ""],
                    nextElementSibling(d, target))
    ELSE after_000([d EXCEPT ![target].collapsed = ~@, ![target].display = "none"], target,
                   Node("a", "byJSONplaceholder", CountText(childrenLength(d, target)), <<"#">>))

RECURSIVE dispatch_000(_, _, _, _)

\* one listener of the container run for a click on target, n listeners being registered
listener_000(d, target, n) ==
    IF d[target].cls = "byJSONtoggle" THEN collapseOrExpand_000(d, nextElementSibling(d, target))
    ELSE IF d[target].cls = "byJSONplaceholder"
            /\ previousElementSibling(d, target) # 0
            /\ d[previousElementSibling(d, target)].cls = "byJSONtoggle"
    THEN dispatch_000(d, previousElementSibling(d, target), n, n)
    ELSE d

\* a click on target: the last `left` of the n listeners of the container run, in order
dispatch_000(d, target, left, n) ==
    IF left = 0 THEN d ELSE dispatch_000(listener_000(d, target, n), target, left - 1, n)

\* .forEach((toggle) => toggle.click())
RECURSIVE clickAll_000(_, _, _)
clickAll_000(d, toggles, n) ==
    IF toggles = <<>> THEN d ELSE clickAll_000(dispatch_000(d, Head(toggles), n, n), Tail(toggles), n)

\* element.innerHTML = html, the toggle control of the root first
innerHTML_000(d, element, json, options) ==
    json2html_000(IF options.rootCollapsable /\ isCollapsable_000(json) THEN toggle_000(d, element) ELSE d,
                  element, json, options)

\* the end of byJSONviewer: with collapsed set every toggle control is clicked, n listeners
\* being registered by now
collapseAll_000(d, element, options, n) ==
    IF options.collapsed THEN clickAll_000(d, querySelectorAll_000(d, element), n) ELSE d

\* byJSONviewer(element, json, options) of part_000 on a container that has n listeners already
byJSONviewer_000(d, element, json, options, n) ==
    collapseAll_000([innerHTML_000(clearChildren(d, element), element, json, mergeOptions_000(options))
                        EXCEPT ![element].cls = "byJSONdocument"],
                    element, mergeOptions_000(options), n + 1)

Inputs_000 ==
    { VStr(<<"<", "\"">>), VArr(<<VNum(c1)>>), VObj(<<ka>>, <<VArr(<<VNum(c1), VNum(c2)>>)>>),
      VArr(<<VArr(<<>>), VObj(<<kb>>, <<VNull>>)>>) }

Choices_000 == {c \in Supplied : \A f \in Fields \ {"collapsed", "withQuotes"} : c[f] = <<>>}

\* the placeholders created since the last call of byJSONviewer
Created_000 == {n \in (call.base + 1)..Len(dom) : dom[n].cls = "byJSONplaceholder"}

\* the page calls byJSONviewer(container, json, options), for the first time or again
Render_000 ==
    /\ pc \in {"idle", "returned"}
    /\ listeners < MaxRenders
    /\ \E json \in Inputs_000, c \in Choices_000 :
          /\ dom' = byJSONviewer_000(dom, Root, json, OptionsObject(c), listeners)
          /\ call' = [json |-> json, options |-> OptionsObject(c), base |-> Len(dom), seq0 |-> seq]
    /\ listeners' = listeners + 1
    /\ pc' = "returned"
    /\ hist' = Event("render", Root, "", FALSE, dom, <<>>)
    /\ UNCHANGED <<timers, now, seq, thrown, logged>>

\* the user clicks a toggle control
Click_000 ==
    /\ pc = "returned"
    /\ Cardinality(Created_000) < MaxCollapses
    /\ \E el \in WithClass(dom, "byJSONtoggle") :
          /\ dom' = dispatch_000(dom, el, listeners, listeners)
          /\ hist' = Event("toggle", el, "", FALSE, dom, <<>>)
    /\ UNCHANGED <<timers, now, seq, pc, call, thrown, logged, listeners>>

\* the user clicks a placeholder
ClickPlaceholder_000 ==
    /\ pc = "returned"
    /\ \E el \in WithClass(dom, "byJSONplaceholder") :
          /\ dom' = dispatch_000(dom, el, listeners, listeners)
          /\ hist' = Event("placeholder", el, "", FALSE, dom, <<>>)
    /\ UNCHANGED <<timers, now, seq, pc, call, thrown, logged, listeners>>

Next_000 == Render_000 \/ Click_000 \/ ClickPlaceholder_000

Spec_000 == Init /\ [][Next_000]_vars

\* the element a toggle control stands for: its next element sibling
Controlled(d, toggle) == nextElementSibling(d, toggle)

\* C28: in the variant of part_000 one click on a toggle control performs
\* exactly one transition of its node, a collapse (which creates the one
\* placeholder) or an expansion (which creates none), and a call of
\* byJSONviewer with collapsed = true leaves every collapsible node
\* collapsed, however many calls were made on the container before.
C28_OneTransitionPerClick ==
    /\ (hist.type = "toggle" /\ Controlled(hist.pre, hist.el) # 0) =>
          /\ dom[Controlled(hist.pre, hist.el)].display # hist.pre[Controlled(hist.pre, hist.el)].display
          /\ Len(dom) - Len(hist.pre) =
                 IF dom[Controlled(hist.pre, hist.el)].display = "none" THEN 1 ELSE 0
    /\ (hist.type = "render" /\ mergeOptions_000(call.options).collapsed) =>
          \A el \in WithClass(dom, "byJSONtoggle") :
              /\ Controlled(dom, el) # 0
              /\ dom[Controlled(dom, el)].display = "none"
              /\ dom[Controlled(dom, el)].collapsed

====
